---- MODULE Spec2Model ----
(***************************************************************************)
(* Model of the two icon generation scripts of code-furnace:               *)
(*   scripts/generate-icons.py   (vector-source pipeline)                  *)
(*   scripts/simple-icon-gen.py  (procedural-source pipeline)              *)
(*                                                                         *)
(* An image is a record that says how the buffer was built (Image.new,     *)
(* paste, putalpha, filter, resize ...).  Its width and height are fields; *)
(* the alpha of one pixel is computed on demand by AlphaAt, so a 512 x 512 *)
(* buffer costs nothing until a pixel of it is inspected.                  *)
(***************************************************************************)
EXTENDS Integers, Sequences, FiniteSets, TLC

VARIABLES
    script,      \* which script runs: "generate-icons" or "simple-icon-gen"
    pc,          \* position of main(): start, png, store, icns, ico, done, exit1, crash
    idx,         \* index of the next entry of the table being iterated
    svg_exists,  \* whether design/logo.svg exists
    svg_pat,     \* what the SVG paints (decides the raster's alpha)
    disk,        \* output directory: file name -> image, or NoFile
    writes,      \* file name -> number of times this run has saved it
    rasterized,  \* number of cairosvg.svg2png / create_volcanic_icon calls of the PNG loops
    icns,        \* what generate_icns did (a record), outcome "none" before it runs
    ico,         \* what the ICO step did (a record), outcome "none" before it runs
    exitcode,    \* process exit status, -1 while running
    warnings,    \* number of "Warning: ..." lines printed
    buf,         \* filter harness: the current buffer
    prev,        \* filter harness: the buffer the last filter was applied to
    ops,         \* filter harness: the filters applied so far ("round", "shadow"), in order
    rp,          \* filter harness: radius_percent handed to create_rounded_icon
    br,          \* filter harness: blur_radius handed to add_shadow_effect
    rsize,       \* renderer harness: the size handed to create_volcanic_icon
    drawn,       \* renderer harness: the drawing primitives issued, in order
    rstate       \* renderer harness: "idle", "done" or "error"

vars == <<script, pc, idx, svg_exists, svg_pat, disk, writes, rasterized, icns, ico,
          exitcode, warnings, buf, prev, ops, rp, br, rsize, drawn, rstate>>

pipeVars == <<script, pc, idx, svg_exists, svg_pat, disk, writes, rasterized, icns, ico,
              exitcode, warnings>>
filterVars == <<buf, prev, ops, rp, br>>
renderVars == <<rsize, drawn, rstate>>

----------------------------------------------------------------------------
(* Bounds of the harnesses *)

\* largest side of the images the filter harness starts from
MaxSide == 5
\* number of filters the harness applies in a row
MaxOps == 2

----------------------------------------------------------------------------
(* Program constants *)

\* canonical resolution of the procedural drawing: s = size / 512.0
BaseSize == 512
\* create_rounded_icon(image, radius_percent=20)
DefaultRadiusPercent == 20
\* add_shadow_effect(..., blur_radius=4)
DefaultBlurRadius == 4
\* add_shadow_effect(..., offset=(2, 2))
DefaultOffset == 2
\* add_shadow_effect(..., shadow_color=(0, 0, 0, 60)): the alpha of the shadow
ShadowAlpha == 60
\* size of the entry whose PNG (icon.png) feeds the bundle packagers
BaseIconSize == 512

Min(a, b) == IF a < b THEN a ELSE b
Max(a, b) == IF a > b THEN a ELSE b

----------------------------------------------------------------------------
(* Images *)

\* Image.new(mode, (w, h), fill): a buffer of one colour; c is its alpha (or the
\* grey level of an 'L' image)
ImageNew(w, h, c) == [k |-> "flat", w |-> w, h |-> h, c |-> c]

\* what the SVG may paint; the rasterizer's output is transparent where it paints nothing
Patterns == {"opaque", "clear", "disc", "half"}

\* cairosvg.svg2png(output_width=size, output_height=size) opened and converted to RGBA
Rasterize(pat, size) == [k |-> "raster", w |-> size, h |-> size, pat |-> pat]

\* alpha of pixel (x, y) of a rasterized pattern
PatternAlpha(pat, w, h, x, y) ==
    CASE pat = "opaque" -> 255
      [] pat = "clear"  -> 0
      [] pat = "half"   -> IF (x + y) % 2 = 0 THEN 128 ELSE 37
      [] pat = "disc"   -> IF (2 * x + 1 - w) * (2 * x + 1 - w) + (2 * y + 1 - h) * (2 * y + 1 - h) <= w * w
                           THEN 255 ELSE 0

\* ImageDraw.rounded_rectangle([(0, 0), (size, size)], radius, fill=255) on a new
\* 'L' image of zeros: the mask of create_rounded_icon
RoundedRectMask(size, radius) ==
    [k |-> "rrect", w |-> size, h |-> size, r |-> Min(radius, size \div 2)]

\* whether pixel (x, y) lies in the rounded rectangle [(0,0),(size,size)] of radius r:
\* the two bands between the corner circles, or one of the four quarter discs
InRoundedRect(size, r, x, y) ==
    \/ r = 0
    \/ (r <= x /\ x <= size - r)
    \/ (r <= y /\ y <= size - r)
    \/ LET cx == IF x < r THEN r ELSE size - r
           cy == IF y < r THEN r ELSE size - r
       IN  (x - cx) * (x - cx) + (y - cy) * (y - cy) <= r * r

\* Image.putalpha(mask): the alpha band is replaced by the mask
PutAlpha(img, mask) == [k |-> "putalpha", w |-> img.w, h |-> img.h, a |-> img, m |-> mask]

\* Image.paste(src, (ox, oy)): src replaces the pixels of its box, all bands
Paste(dst, src, ox, oy) ==
    [k |-> "paste", w |-> dst.w, h |-> dst.h, a |-> dst, b |-> src,
     ox |-> ox, oy |-> oy, masked |-> FALSE, m |-> src]

\* Image.paste(src, (ox, oy), mask): src is blended into its box through the mask's alpha
PasteMasked(dst, src, ox, oy, mask) ==
    [k |-> "paste", w |-> dst.w, h |-> dst.h, a |-> dst, b |-> src,
     ox |-> ox, oy |-> oy, masked |-> TRUE, m |-> mask]

\* Image.filter(ImageFilter.GaussianBlur(radius)): same size as its input
GaussianBlur(img, radius) == [k |-> "blur", w |-> img.w, h |-> img.h, a |-> img, r |-> radius]

\* Image.resize((w, h), LANCZOS): a buffer of the size asked for, resampled from img
Resize(img, w, h) == [k |-> "resize", w |-> w, h |-> h, a |-> img]

\* Pillow's 8-bit blend of paste-with-mask: (dst*(255-m) + src*m) / 255, rounded
Blend8(m, dst, src) ==
    LET t == dst * (255 - m) + src * m + 128
    IN  (t + (t \div 256)) \div 256

RECURSIVE AlphaAt(_, _, _)
\* the alpha of pixel (x, y) of an image (the grey level, for a mask).  Not
\* modelled, because no property reads them: the pixels of the procedural canvas
\* (kind "canvas", only its size and the primitives drawn on it are modelled), of
\* a LANCZOS-resampled image (kind "resize", only its size is modelled) and of the
\* Gaussian blur of a buffer that is not uniform.
AlphaAt(img, x, y) ==
    CASE img.k = "flat"     -> img.c
      [] img.k = "raster"   -> PatternAlpha(img.pat, img.w, img.h, x, y)
      [] img.k = "rrect"    -> IF InRoundedRect(img.w, img.r, x, y) THEN 255 ELSE 0
      [] img.k = "putalpha" -> AlphaAt(img.m, x, y)
      [] img.k = "paste"    ->
            LET sx == x - img.ox
                sy == y - img.oy
            IN  IF 0 <= sx /\ sx < img.b.w /\ 0 <= sy /\ sy < img.b.h
                THEN IF img.masked
                     THEN Blend8(AlphaAt(img.m, sx, sy), AlphaAt(img.a, x, y), AlphaAt(img.b, sx, sy))
                     ELSE AlphaAt(img.b, sx, sy)
                ELSE AlphaAt(img.a, x, y)
      \* a normalised blur kernel with the edge pixels extended leaves a uniform
      \* buffer as it is; a uniform layer is all the code ever blurs (lines 40-41)
      [] img.k = "blur" /\ img.a.k = "flat" -> img.a.c

Pixels(img) == (0..(img.w - 1)) \X (0..(img.h - 1))

----------------------------------------------------------------------------
(* Post-processing filters (generate-icons.py 14-48, simple-icon-gen.py 148-163) *)

\* int(size * radius_percent / 100)
RoundRadius(size, radius_percent) == (size * radius_percent) \div 100

\* faulty variant: the mask is built but never applied, the image keeps its own alpha
create_rounded_icon_keep(image, radius_percent) ==
    LET size == image.w
    IN  Paste(ImageNew(size, size, 0), image, 0, 0)

create_rounded_icon(image, radius_percent) ==
    LET size   == image.w
        radius == RoundRadius(size, radius_percent)
        mask   == RoundedRectMask(size, radius)
        result == Paste(ImageNew(size, size, 0), image, 0, 0)
    IN  PutAlpha(result, mask)

\* faulty variant: the composite is made on the enlarged canvas the function allocates
add_shadow_effect_enlarged(image, shadow_alpha, offset, blur_radius) ==
    LET shadow       == ImageNew(image.w + blur_radius * 2, image.h + blur_radius * 2, 0)
        shadow_layer == GaussianBlur(ImageNew(image.w, image.h, shadow_alpha), blur_radius)
    IN  PasteMasked(PasteMasked(shadow, shadow_layer, offset, offset, shadow_layer),
                    image, 0, 0, image)

add_shadow_effect(image, shadow_alpha, offset, blur_radius) ==
    LET \* allocated and never used by the code
        shadow       == ImageNew(image.w + blur_radius * 2, image.h + blur_radius * 2, 0)
        shadow_layer == GaussianBlur(ImageNew(image.w, image.h, shadow_alpha), blur_radius)
        result       == ImageNew(image.w, image.h, 0)
    IN  PasteMasked(PasteMasked(result, shadow_layer, offset, offset, shadow_layer),
                    image, 0, 0, image)

----------------------------------------------------------------------------
(* Procedural renderer (simple-icon-gen.py 11-146) *)

\* int(k * s) with s = size / 512.0, for k >= 0
Scaled(k, size) == (k * size) \div BaseSize
\* int(k2 / 2 * s): the half-integer factors 2.5 and 1.5
ScaledHalf(k2, size) == (k2 * size) \div (2 * BaseSize)

\* draw.ellipse([cx - rx, cy - ry, cx + rx, cy + ry], ...)
Ellipse(shape, cx, cy, rx, ry, wd) ==
    [shape |-> shape, kind |-> "ellipse",
     x0 |-> cx - rx, y0 |-> cy - ry, x1 |-> cx + rx, y1 |-> cy + ry,
     rx |-> rx, ry |-> ry, wd |-> wd]

\* draw.rectangle([x0, y0, x1, y1], ...): rx, ry are its width and height
Rectangle(shape, x0, y0, x1, y1, wd) ==
    [shape |-> shape, kind |-> "rectangle",
     x0 |-> x0, y0 |-> y0, x1 |-> x1, y1 |-> y1,
     rx |-> x1 - x0, ry |-> y1 - y0, wd |-> wd]

\* draw.polygon / draw.line: rx, ry are the extent of the points
Path(shape, kind, x0, y0, x1, y1, wd) ==
    [shape |-> shape, kind |-> kind,
     x0 |-> x0, y0 |-> y0, x1 |-> x1, y1 |-> y1,
     rx |-> x1 - x0, ry |-> y1 - y0, wd |-> wd]

\* the sequence s with the elements that do not satisfy keep[i] removed
RECURSIVE SelectIdx(_, _, _)
SelectIdx(s, keep, i) ==
    IF i > Len(s) THEN <<>>
    ELSE (IF keep[i] THEN <<s[i]>> ELSE <<>>) \o SelectIdx(s, keep, i + 1)

\* lines 29-34: the background circle, drawn unconditionally
BackgroundPrims(size) ==
    LET center == size \div 2
    IN  << Ellipse("background", center, center, Scaled(240, size), Scaled(240, size), 1) >>

\* lines 36-42: the outer ring, ring_width outlines
RingPrims(size) ==
    LET center      == size \div 2
        ring_radius == Scaled(220, size)
        ring_width  == Max(1, Scaled(3, size))
    IN  [i \in 1..ring_width |->
            Ellipse("ring", center, center, ring_radius - (i - 1), ring_radius - (i - 1), 1)]

\* lines 44-50: the anvil base
AnvilPrims(size) ==
    << Rectangle("anvil", Scaled(160, size), Scaled(332, size), Scaled(352, size), Scaled(380, size),
                 Max(1, Scaled(2, size))) >>

\* lines 52-62: the furnace body polygon (its bounding box)
FurnacePrims(size) ==
    << Path("furnace", "polygon", Scaled(192, size), Scaled(100, size), Scaled(320, size), Scaled(320, size),
            Max(1, Scaled(3, size))) >>

\* lines 64-78: five glow ellipses, each drawn only when both radii are positive
GlowPrims(size) ==
    LET cx   == Scaled(256, size)
        cy   == Scaled(200, size)
        all  == [i \in 1..5 |->
                    Ellipse("glow", cx, cy,
                            Scaled(45, size) - (i - 1) * Scaled(5, size),
                            Scaled(60, size) - (i - 1) * Scaled(8, size), 1)]
        keep == [i \in 1..5 |-> all[i].rx > 0 /\ all[i].ry > 0 /\ 255 - (i - 1) * 40 > 0]
    IN  SelectIdx(all, keep, 1)

\* Fixed-point arithmetic for math.sin: numbers are scaled by 2^24 and multiplied
\* in two 12-bit limbs, so that no product leaves 31 bits
FixOne == 16777216
FixLimb == 4096
\* pi / 2, pi and 2 pi, scaled by 2^24
FixHalfPi == 26353589
FixPi == 52707179
FixTwoPi == 105414357

\* a * b / 2^24 for a, b >= 0 scaled by 2^24
MulFix(a, b) ==
    LET a1 == a \div FixLimb
        a0 == a % FixLimb
        b1 == b \div FixLimb
        b0 == b % FixLimb
    IN  a1 * b1 + ((a1 * b0 + a0 * b1) \div FixLimb) + ((a0 * b0) \div FixOne)

\* the denominators (2k)(2k + 1) of the Taylor series of the sine, innermost last
SinDivisors == << 6, 20, 42, 72, 110, 156 >>

\* sin(x) for 0 <= x <= pi/2, both scaled by 2^24: the Taylor series up to x^13,
\* x (1 - x^2/6 (1 - x^2/20 (1 - ... (1 - x^2/156)))), from the innermost factor out
SinQuarter(x) ==
    LET Horner[k \in 0..Len(SinDivisors), x2 \in 0..(4 * FixOne), t \in 0..FixOne] ==
            IF k = 0 THEN t
            ELSE Horner[k - 1, x2, FixOne - (MulFix(x2, t) \div SinDivisors[k])]
        Sine[y \in 0..(2 * FixOne)] == MulFix(y, Horner[Len(SinDivisors), MulFix(y, y), FixOne])
    IN  Sine[x]

\* sin(n / 5120) scaled by 2^24, for an integer n
SinFix(n) ==
    LET m     == IF n < 0 THEN -n ELSE n
        theta == ((m * 16384) \div 5) % FixTwoPi
        lower == theta > FixPi
        r     == IF lower THEN theta - FixPi ELSE theta
        q     == IF r > FixHalfPi THEN FixPi - r ELSE r
        v     == SinQuarter(q)
    IN  IF (n < 0) # lower THEN -v ELSE v

\* line 89: offset = int(10 * s * math.sin((x - 210 * s) * 0.1)), truncated towards
\* zero; (x - 210 s) * 0.1 = (512 x - 210 size) / 5120
CrackOffset(size, x) ==
    LET Times10s[v \in (-FixOne)..FixOne] ==
            LET mag == IF v < 0 THEN -v ELSE v
                hi  == 5 * size * (mag \div FixLimb)
                lo  == (5 * size * (mag % FixLimb)) \div FixLimb
                t   == (hi + lo) \div 1048576
            IN  IF v < 0 THEN -t ELSE t
    IN  Times10s[SinFix(BaseSize * x - 210 * size)]

\* lines 80-95: three crack lines, segments between the samples (x, y_pos + offset)
\* for x in range(int(210 s), int(302 s), max(1, int(10 s)))
CrackPrims(size) ==
    LET first == Scaled(210, size)
        last  == Scaled(302, size)
        step  == Max(1, Scaled(10, size))
        n     == IF last > first THEN (last - first + step - 1) \div step ELSE 0
        offs  == [j \in 1..n |-> CrackOffset(size, first + (j - 1) * step)]
        ys    == << Scaled(160, size), Scaled(200, size), Scaled(240, size) >>
        ws    == << Max(1, Scaled(3, size)), Max(1, Scaled(4, size)), Max(1, Scaled(3, size)) >>
        segs(c) == IF n < 2 THEN <<>>
                   ELSE [j \in 1..(n - 1) |->
                            Path("crack", "line",
                                 first + (j - 1) * step, ys[c] + offs[j],
                                 first + j * step, ys[c] + offs[j + 1], ws[c])]
    IN  segs(1) \o segs(2) \o segs(3)

\* lines 97-108: the furnace mouth and its inner glow, drawn unconditionally
MouthPrims(size) ==
    LET cx == Scaled(256, size)
        cy == Scaled(140, size)
    IN  << Ellipse("mouth", cx, cy, Scaled(25, size), Scaled(15, size), Max(1, Scaled(2, size))),
           Ellipse("inner_glow", cx, cy, Scaled(20, size), Scaled(10, size), 1) >>

\* lines 110-123: five embers, each drawn only when its radius is positive
EmberPrims(size) ==
    LET all  == << Ellipse("ember", Scaled(200, size), Scaled(120, size), Scaled(3, size), Scaled(3, size), 1),
                   Ellipse("ember", Scaled(320, size), Scaled(100, size), Scaled(2, size), Scaled(2, size), 1),
                   Ellipse("ember", Scaled(280, size), Scaled(80, size), ScaledHalf(5, size), ScaledHalf(5, size), 1),
                   Ellipse("ember", Scaled(180, size), Scaled(90, size), Scaled(2, size), Scaled(2, size), 1),
                   Ellipse("ember", Scaled(340, size), Scaled(130, size), ScaledHalf(3, size), ScaledHalf(3, size), 1) >>
        keep == [i \in 1..5 |-> all[i].rx > 0]
    IN  SelectIdx(all, keep, 1)

\* lines 125-133: four vents, drawn unconditionally
VentPrims(size) ==
    LET vent_y      == Scaled(300, size)
        vent_height == Max(1, Scaled(3, size))
        vent_width  == Scaled(20, size)
        xs          == << Scaled(200, size), Scaled(230, size), Scaled(260, size), Scaled(290, size) >>
    IN  [i \in 1..4 |-> Rectangle("vent", xs[i], vent_y, xs[i] + vent_width, vent_y + vent_height, 1)]

\* lines 135-144: the bright core, radii forced to at least 1
CorePrims(size) ==
    LET center == size \div 2
        cy     == Scaled(200, size)
        core_radius   == Max(1, Scaled(12, size))
        bright_radius == Max(1, Scaled(6, size))
    IN  << Ellipse("core", center, cy, core_radius, core_radius, 1),
           Ellipse("bright", center, cy, bright_radius, bright_radius, 1) >>

\* every primitive create_volcanic_icon(size) issues, in order
VolcanicPrims(size) ==
    BackgroundPrims(size) \o RingPrims(size) \o AnvilPrims(size) \o FurnacePrims(size) \o
    GlowPrims(size) \o CrackPrims(size) \o MouthPrims(size) \o EmberPrims(size) \o
    VentPrims(size) \o CorePrims(size)

\* the imaging library raises ValueError for a box whose x1 < x0 or y1 < y0
Rejected(p) == p.kind \in {"ellipse", "rectangle"} /\ (p.x1 < p.x0 \/ p.y1 < p.y0)

\* index of the first rejected primitive, 0 when there is none
FirstRejected(prims) ==
    IF \E i \in 1..Len(prims) : Rejected(prims[i])
    THEN CHOOSE i \in 1..Len(prims) : Rejected(prims[i]) /\ \A j \in 1..(i - 1) : ~Rejected(prims[j])
    ELSE 0

\* the sizes at which the library rejects a primitive of the drawing
RejectedSizes == {n \in 1..BaseSize : FirstRejected(VolcanicPrims(n)) # 0}

\* create_volcanic_icon(size): the canvas, and whether drawing raised
create_volcanic_icon(size) ==
    [k |-> "canvas", w |-> size, h |-> size, error |-> size \in RejectedSizes]

----------------------------------------------------------------------------
(* Configuration tables *)

Entry(size, filename, rounded, shadow) ==
    [size |-> size, filename |-> filename, rounded |-> rounded, shadow |-> shadow]

\* faulty variant: two entries of the table share a file name
sizes_collide ==
    << Entry(32, "32x32.png", FALSE, FALSE),
       Entry(128, "128x128.png", TRUE, TRUE),
       Entry(256, "128x128.png", TRUE, TRUE),
       Entry(512, "icon.png", TRUE, TRUE) >>

\* generate-icons.py: sizes, the core PNG entries (size, filename, rounded, shadow)
sizes ==
    << Entry(32, "32x32.png", FALSE, FALSE),
       Entry(128, "128x128.png", TRUE, TRUE),
       Entry(256, "128x128@2x.png", TRUE, TRUE),
       Entry(512, "icon.png", TRUE, TRUE) >>

\* generate-icons.py: store_sizes, generated with rounded=True and the default shadow=False
store_sizes ==
    << Entry(30, "Square30x30Logo.png", TRUE, FALSE),
       Entry(44, "Square44x44Logo.png", TRUE, FALSE),
       Entry(71, "Square71x71Logo.png", TRUE, FALSE),
       Entry(89, "Square89x89Logo.png", TRUE, FALSE),
       Entry(107, "Square107x107Logo.png", TRUE, FALSE),
       Entry(142, "Square142x142Logo.png", TRUE, FALSE),
       Entry(150, "Square150x150Logo.png", TRUE, FALSE),
       Entry(284, "Square284x284Logo.png", TRUE, FALSE),
       Entry(310, "Square310x310Logo.png", TRUE, FALSE),
       Entry(50, "StoreLogo.png", TRUE, FALSE) >>

\* simple-icon-gen.py: icon_configs (size, filename, rounded); the script has no shadow
icon_configs ==
    << Entry(32, "32x32.png", FALSE, FALSE),
       Entry(128, "128x128.png", TRUE, FALSE),
       Entry(256, "128x128@2x.png", TRUE, FALSE),
       Entry(512, "icon.png", TRUE, FALSE),
       Entry(30, "Square30x30Logo.png", TRUE, FALSE),
       Entry(44, "Square44x44Logo.png", TRUE, FALSE),
       Entry(71, "Square71x71Logo.png", TRUE, FALSE),
       Entry(89, "Square89x89Logo.png", TRUE, FALSE),
       Entry(107, "Square107x107Logo.png", TRUE, FALSE),
       Entry(142, "Square142x142Logo.png", TRUE, FALSE),
       Entry(150, "Square150x150Logo.png", TRUE, FALSE),
       Entry(284, "Square284x284Logo.png", TRUE, FALSE),
       Entry(310, "Square310x310Logo.png", TRUE, FALSE),
       Entry(50, "StoreLogo.png", TRUE, FALSE) >>

\* generate_icns: iconset_sizes, the sizes of the ten staging files
iconset_sizes == << 16, 32, 32, 64, 128, 256, 256, 512, 512, 1024 >>

\* the sizes both scripts ask the ICO writer for
ico_sizes == << 16, 24, 32, 48, 64, 128, 256 >>

Range(s) == {s[i] : i \in 1..Len(s)}

\* the table the PNG loop at position p of script sc iterates
Table(sc, p) ==
    IF sc = "simple-icon-gen" THEN icon_configs
    ELSE IF p = "png" THEN sizes ELSE store_sizes

\* every entry the PNG loops of script sc go through
AllEntries(sc) ==
    IF sc = "simple-icon-gen" THEN icon_configs ELSE sizes \o store_sizes

PngNames ==
    {e.filename : e \in Range(sizes) \cup Range(store_sizes) \cup Range(icon_configs)}

FileNames == PngNames \cup {"icon.png", "icon.ico", "icon.icns"}

NoFile == [k |-> "none", w |-> 0, h |-> 0]

Present(f) == f.k # "none"

----------------------------------------------------------------------------
(* generate-icons.py: generate_png_from_svg (50-77), the buffer it saves *)

\* faulty variant: the two effects are applied in the other order
generate_png_from_svg_shadow_first(pat, size, rounded, shadow) ==
    LET image   == Rasterize(pat, size)
        image_s == IF shadow
                   THEN add_shadow_effect(image, ShadowAlpha, DefaultOffset, DefaultBlurRadius)
                   ELSE image
    IN  IF rounded THEN create_rounded_icon(image_s, DefaultRadiusPercent) ELSE image_s

generate_png_from_svg(pat, size, rounded, shadow) ==
    LET image   == Rasterize(pat, size)
        image_r == IF rounded THEN create_rounded_icon(image, DefaultRadiusPercent) ELSE image
    IN  IF shadow
        THEN add_shadow_effect(image_r, ShadowAlpha, DefaultOffset, DefaultBlurRadius)
        ELSE image_r

\* simple-icon-gen.py: the body of the loop of main (193-205), the buffer it saves
generate_png_procedural(size, rounded) ==
    LET icon == create_volcanic_icon(size)
    IN  IF rounded THEN create_rounded_icon(icon, DefaultRadiusPercent) ELSE icon

----------------------------------------------------------------------------
(* Bundle packagers *)

\* Pillow's ICO writer, called as im.save(format='ICO', sizes=...) with no
\* append_images: a requested size larger than im, or than 256, is left out
IcoFrames(im, requested) ==
    {s \in Range(requested) : s <= im.w /\ s <= im.h /\ s <= 256}

\* faulty variant: the step has no try/except, what is raised inside escapes
Unguarded(raised_inside) == raised_inside

\* try: ... except Exception as e: print warning -- whether an exception raised
\* inside the block escapes the function
TryExcept(raised_inside) == FALSE

\* faulty variant: the staging directory is removed whatever the tool returned
CleanupAlways(ran, returncode) == ran

\* if result.returncode == 0: shutil.rmtree(iconset_dir) -- whether the removal
\* of the staging directory is attempted
CleanupOnSuccess(ran, returncode) == ran /\ returncode = 0

IcnsOutcomes ==
    {"mkdir_failed", "open_failed", "resize_failed", "save_failed",
     "tool_missing", "tool_nonzero", "tool_ok"}

IcnsIdle(stale) ==
    [outcome |-> "none", staging_created |-> FALSE, staging_present |-> stale,
     saved |-> 0, deleted |-> FALSE, icns_written |-> FALSE, raised |-> FALSE,
     warned |-> FALSE, returncode |-> -1, read |-> NoFile]

\* generate-icons.py: generate_icns (79-128).  base is icon.png as found on disk,
\* stale says whether an icon.iconset directory was there already, outcome is what
\* the environment does to the step up to the packaging tool, at the staging entry
\* a failure hits, and rm_ok whether shutil.rmtree, when called, succeeds.
generate_icns(base, stale, outcome, at, rm_ok) ==
    LET \* iconset_dir.mkdir(exist_ok=True)
        made    == outcome # "mkdir_failed"
        \* base_image = Image.open(png_512_path)
        opened  == made /\ outcome # "open_failed"
        \* the loop over iconset_sizes: resize, then save into the staging directory
        looped  == opened /\ outcome \notin {"resize_failed", "save_failed"}
        saved   == IF ~opened THEN 0 ELSE IF looped THEN Len(iconset_sizes) ELSE at - 1
        \* subprocess.run(['iconutil', ...]) raises when the tool is missing
        ran     == looped /\ outcome # "tool_missing"
        returncode == IF ~ran THEN -1 ELSE IF outcome = "tool_ok" THEN 0 ELSE 1
        \* shutil.rmtree(iconset_dir), after the success line is printed; when it
        \* raises the directory stays and the exception reaches line 127
        cleanup == CleanupOnSuccess(ran, returncode)
        cleaned == cleanup /\ rm_ok
        raised_inside == ~ran \/ (cleanup /\ ~rm_ok)
    IN  [outcome |-> outcome,
         staging_created |-> made,
         staging_present |-> (stale \/ made) /\ ~cleaned,
         saved |-> saved,
         deleted |-> cleaned,
         icns_written |-> ran /\ returncode = 0,
         raised |-> TryExcept(raised_inside),
         warned |-> raised_inside \/ (ran /\ returncode # 0),
         returncode |-> returncode,
         read |-> IF opened THEN base ELSE NoFile]

IcoOutcomes == {"open_failed", "resize_failed", "save_failed", "ok"}

IcoIdle ==
    [outcome |-> "none", written |-> FALSE, frames |-> {}, raised |-> FALSE,
     warned |-> FALSE, read |-> NoFile, handed |-> NoFile]

\* generate-icons.py: generate_ico (130-153).  Every size is resampled from the
\* base image; the writer is called on images[0], the first (16 x 16) of them.
generate_ico(base, outcome) ==
    LET images == [i \in 1..Len(ico_sizes) |-> Resize(base, ico_sizes[i], ico_sizes[i])]
        asked  == [i \in 1..Len(ico_sizes) |-> images[i].w]
        ok     == outcome = "ok"
    IN  [outcome |-> outcome,
         written |-> ok,
         frames  |-> IF ok THEN IcoFrames(images[1], asked) ELSE {},
         raised  |-> TryExcept(~ok),
         warned  |-> ~ok,
         read    |-> IF outcome = "open_failed" THEN NoFile ELSE base,
         handed  |-> IF ok THEN images[1] ELSE NoFile]

ProceduralIcoOutcomes == {"render_failed", "save_failed", "ok"}

\* simple-icon-gen.py: the ICO block of main (207-227).  Every size is rendered
\* afresh; the writer is called on ico_images[0], the first (16 x 16) of them.
generate_ico_procedural(outcome) ==
    LET ico_images == [i \in 1..Len(ico_sizes) |-> create_volcanic_icon(ico_sizes[i])]
        asked      == [i \in 1..Len(ico_sizes) |-> ico_images[i].w]
        ok         == outcome = "ok" /\ \A i \in 1..Len(ico_sizes) : ~ico_images[i].error
    IN  [outcome |-> IF ~ok /\ outcome = "ok" THEN "render_failed" ELSE outcome,
         written |-> ok,
         frames  |-> IF ok THEN IcoFrames(ico_images[1], asked) ELSE {},
         raised  |-> TryExcept(~ok),
         warned  |-> ~ok,
         read    |-> NoFile,
         handed  |-> IF ok THEN ico_images[1] ELSE NoFile]

----------------------------------------------------------------------------
(* main() of both scripts *)

Scripts == {"generate-icons", "simple-icon-gen"}

\* faulty variant: main does not look for the SVG before it starts
SvgCheckSkipped(sc, exists) == TRUE

\* generate-icons.py 172-174: if not svg_path.exists(): sys.exit(1)
\* (simple-icon-gen.py reads no source file)
SvgCheckPasses(sc, exists) == sc = "generate-icons" => exists

EmptyDisk == [f \in FileNames |-> NoFile]

\* an icon.png left by an earlier run, at another size
StaleIcon == Rasterize("opaque", 256)

PipeIdle ==
    /\ script = "generate-icons"
    /\ pc = "off"
    /\ idx = 1
    /\ svg_exists = TRUE
    /\ svg_pat = "opaque"
    /\ disk = EmptyDisk
    /\ writes = [f \in FileNames |-> 0]
    /\ rasterized = 0
    /\ icns = IcnsIdle(FALSE)
    /\ ico = IcoIdle
    /\ exitcode = -1
    /\ warnings = 0

FilterIdle ==
    /\ buf = NoFile
    /\ prev = NoFile
    /\ ops = <<>>
    /\ rp = DefaultRadiusPercent
    /\ br = DefaultBlurRadius

RenderIdle ==
    /\ rsize = BaseSize
    /\ drawn = <<>>
    /\ rstate = "off"

PipeInit ==
    /\ script \in Scripts
    /\ pc = "start"
    /\ idx = 1
    /\ svg_exists \in BOOLEAN
    /\ svg_pat \in (IF script = "generate-icons" THEN Patterns ELSE {"clear"})
    /\ disk \in {EmptyDisk, [EmptyDisk EXCEPT !["icon.png"] = StaleIcon]}
    /\ writes = [f \in FileNames |-> 0]
    /\ rasterized = 0
    /\ icns \in {IcnsIdle(stale) : stale \in BOOLEAN}
    /\ ico = IcoIdle
    /\ exitcode = -1
    /\ warnings = 0

\* generate-icons.py 172-174: the SVG is missing, sys.exit(1).  (The import check
\* of lines 159-165 cannot fail once the imports of lines 10-11 have succeeded.)
MainMissingSvg ==
    /\ pc = "start"
    /\ ~SvgCheckPasses(script, svg_exists)
    /\ pc' = "exit1"
    /\ exitcode' = 1
    /\ UNCHANGED <<script, idx, svg_exists, svg_pat, disk, writes, rasterized, icns, ico, warnings>>

\* icons_dir.mkdir(exist_ok=True): raises, uncaught, when the parent is missing
MainMkdir ==
    /\ pc = "start"
    /\ SvgCheckPasses(script, svg_exists)
    /\ \E ok \in BOOLEAN :
          /\ pc' = IF ok THEN "png" ELSE "crash"
          /\ exitcode' = IF ok THEN exitcode ELSE 1
    /\ UNCHANGED <<script, idx, svg_exists, svg_pat, disk, writes, rasterized, icns, ico, warnings>>

\* where main goes when the loop at position p is through
NextPhase(sc, p) ==
    IF sc = "simple-icon-gen" THEN "ico"
    ELSE IF p = "png" THEN "store" ELSE "icns"

\* one iteration of a PNG loop: render, post-process, save.  Nothing guards it:
\* what it raises ends the run.
PngStep(ok) ==
    LET table == Table(script, pc)
        e     == table[idx]
        image == IF script = "generate-icons"
                 THEN generate_png_from_svg(svg_pat, e.size, e.rounded, e.shadow)
                 ELSE generate_png_procedural(e.size, e.rounded)
        fine  == /\ ok
                 /\ script = "generate-icons" => svg_exists
                 /\ script = "simple-icon-gen" => ~create_volcanic_icon(e.size).error
    IN  /\ rasterized' = rasterized + 1
        /\ IF fine
           THEN /\ disk' = [disk EXCEPT ![e.filename] = image]
                /\ writes' = [writes EXCEPT ![e.filename] = @ + 1]
                /\ IF idx < Len(table)
                   THEN idx' = idx + 1 /\ pc' = pc
                   ELSE idx' = 1 /\ pc' = NextPhase(script, pc)
                /\ UNCHANGED exitcode
           ELSE /\ pc' = "crash"
                /\ exitcode' = 1
                /\ UNCHANGED <<disk, writes, idx>>
        /\ UNCHANGED <<script, svg_exists, svg_pat, icns, ico, warnings>>

\* generate-icons.py 189-191 and simple-icon-gen.py 193-205
GenerateCorePng == pc = "png" /\ \E ok \in BOOLEAN : PngStep(ok)

\* generate-icons.py 207-209
GenerateStorePng == pc = "store" /\ \E ok \in BOOLEAN : PngStep(ok)

\* generate-icons.py 215: generate_icns(icons_dir / "icon.png", icons_dir / "icon.icns")
GenerateIcns ==
    /\ pc = "icns"
    /\ \E outcome \in IcnsOutcomes, at \in 1..Len(iconset_sizes), rm_ok \in BOOLEAN :
          /\ outcome \notin {"resize_failed", "save_failed"} => at = 1
          /\ outcome # "tool_ok" => rm_ok
          /\ icns.staging_present => outcome # "mkdir_failed"
          /\ ~Present(disk["icon.png"]) => outcome \in {"mkdir_failed", "open_failed"}
          /\ LET r == generate_icns(disk["icon.png"], icns.staging_present, outcome, at, rm_ok)
             IN  /\ icns' = r
                 /\ disk' = IF r.icns_written
                            THEN [disk EXCEPT !["icon.icns"] = [k |-> "icns", w |-> 0, h |-> 0]]
                            ELSE disk
                 /\ writes' = IF r.icns_written
                              THEN [writes EXCEPT !["icon.icns"] = @ + 1]
                              ELSE writes
                 /\ warnings' = warnings + (IF r.warned THEN 1 ELSE 0)
                 /\ pc' = IF r.raised THEN "crash" ELSE "ico"
                 /\ exitcode' = IF r.raised THEN 1 ELSE exitcode
    /\ UNCHANGED <<script, idx, svg_exists, svg_pat, rasterized, ico>>

\* generate-icons.py 218 and simple-icon-gen.py 207-227, then the closing prints
\* and the return of main
GenerateIco ==
    /\ pc = "ico"
    /\ \E outcome \in IcoOutcomes \cup ProceduralIcoOutcomes :
          /\ outcome \in (IF script = "generate-icons" THEN IcoOutcomes ELSE ProceduralIcoOutcomes)
          /\ (script = "generate-icons" /\ ~Present(disk["icon.png"])) => outcome = "open_failed"
          /\ LET r == IF script = "generate-icons"
                      THEN generate_ico(disk["icon.png"], outcome)
                      ELSE generate_ico_procedural(outcome)
             IN  /\ ico' = r
                 /\ disk' = IF r.written
                            THEN [disk EXCEPT !["icon.ico"] =
                                     [k |-> "ico", w |-> 0, h |-> 0, frames |-> r.frames]]
                            ELSE disk
                 /\ writes' = IF r.written
                              THEN [writes EXCEPT !["icon.ico"] = @ + 1]
                              ELSE writes
                 /\ warnings' = warnings + (IF r.warned THEN 1 ELSE 0)
                 /\ pc' = IF r.raised THEN "crash" ELSE "done"
                 /\ exitcode' = IF r.raised THEN 1 ELSE 0
    /\ UNCHANGED <<script, idx, svg_exists, svg_pat, rasterized, icns>>

Init == PipeInit /\ FilterIdle /\ RenderIdle

Next ==
    \/ MainMissingSvg /\ UNCHANGED <<filterVars, renderVars>>
    \/ MainMkdir /\ UNCHANGED <<filterVars, renderVars>>
    \/ GenerateCorePng /\ UNCHANGED <<filterVars, renderVars>>
    \/ GenerateStorePng /\ UNCHANGED <<filterVars, renderVars>>
    \/ GenerateIcns /\ UNCHANGED <<filterVars, renderVars>>
    \/ GenerateIco /\ UNCHANGED <<filterVars, renderVars>>

Spec == Init /\ [][Next]_vars

----------------------------------------------------------------------------
(* Filter harness: the two post-processing filters applied to arbitrary square
   buffers, with arbitrary radius percentages and blur radii *)

RadiusPercents == {0, 10, 20, 35, 50}

BlurRadii == {1, 4}

FilterInit ==
    /\ \E n \in 1..MaxSide, pat \in Patterns : buf = Rasterize(pat, n)
    /\ prev = buf
    /\ ops = <<>>
    /\ rp \in RadiusPercents
    /\ br \in BlurRadii

\* buf = create_rounded_icon(buf, rp)
ApplyRound ==
    /\ Len(ops) < MaxOps
    /\ buf' = create_rounded_icon(buf, rp)
    /\ prev' = buf
    /\ ops' = Append(ops, "round")
    /\ UNCHANGED <<rp, br>>

\* buf = add_shadow_effect(buf, blur_radius=br)
ApplyShadow ==
    /\ Len(ops) < MaxOps
    /\ buf' = add_shadow_effect(buf, ShadowAlpha, DefaultOffset, br)
    /\ prev' = buf
    /\ ops' = Append(ops, "shadow")
    /\ UNCHANGED <<rp, br>>

FilterNext ==
    \/ ApplyRound /\ UNCHANGED <<pipeVars, renderVars>>
    \/ ApplyShadow /\ UNCHANGED <<pipeVars, renderVars>>

InitFilters == PipeIdle /\ FilterInit /\ RenderIdle

SpecFilters == InitFilters /\ [][FilterNext]_vars

----------------------------------------------------------------------------
(* Renderer harness: create_volcanic_icon at every size from 1 to 512 *)

RenderInit ==
    /\ rsize \in 1..BaseSize
    /\ drawn = <<>>
    /\ rstate = "idle"

\* create_volcanic_icon(rsize): the primitives are issued in order, up to the
\* first one the library rejects
Render ==
    /\ rstate = "idle"
    /\ LET prims == VolcanicPrims(rsize)
           bad   == FirstRejected(prims)
       IN  /\ drawn' = IF bad = 0 THEN prims ELSE SubSeq(prims, 1, bad)
           /\ rstate' = IF create_volcanic_icon(rsize).error THEN "error" ELSE "done"
    /\ UNCHANGED rsize

RenderNext == Render /\ UNCHANGED <<pipeVars, filterVars>>

InitRender == PipeIdle /\ FilterIdle /\ RenderInit

SpecRender == InitRender /\ [][RenderNext]_vars

----------------------------------------------------------------------------
(* Properties *)

Vector == script = "generate-icons"

BundleBegun == icns.outcome # "none" \/ ico.outcome # "none"

LastOp == IF Len(ops) = 0 THEN "none" ELSE ops[Len(ops)]

\* C1: in the vector pipeline with the SVG missing, the run can only exit with
\* status 1 at once; nothing is rasterized, nothing is written, no bundle step starts.
C1_MissingSvgAborts ==
    (Vector /\ ~svg_exists) =>
        /\ pc \in {"start", "exit1"}
        /\ pc = "start" => (ENABLED MainMissingSvg /\ ~ENABLED MainMkdir)
        /\ pc = "exit1" => exitcode = 1
        /\ rasterized = 0
        /\ \A f \in FileNames : writes[f] = 0
        /\ ~BundleBegun

C1_Witness == Vector /\ ~svg_exists /\ pc = "exit1" /\ exitcode = 1

\* C2: a failure inside generate_icns or the ICO step ends in a warning, never in
\* an abort: after a failed ICNS step the ICO step is still taken, the run ends
\* "done" with exit status 0, and every PNG of the tables is still on disk.
C2_BundleFailuresAreWarnings ==
    /\ BundleBegun => pc \in {"ico", "done"}
    /\ pc = "ico" => ENABLED GenerateIco
    /\ ico.outcome # "none" => (pc = "done" /\ exitcode = 0)
    /\ pc = "done" => (ico.outcome # "none" /\ (Vector => icns.outcome # "none"))
    /\ warnings = (IF icns.warned THEN 1 ELSE 0) + (IF ico.warned THEN 1 ELSE 0)
    /\ (icns.outcome \notin {"none", "tool_ok"} \/ (icns.returncode = 0 /\ ~icns.deleted)) => icns.warned
    /\ ico.outcome \notin {"none", "ok"} => ico.warned
    /\ BundleBegun =>
          \A i \in 1..Len(AllEntries(script)) :
              LET e == AllEntries(script)[i]
              IN  Present(disk[e.filename]) /\ disk[e.filename].w = e.size

C2_Witness ==
    /\ Vector /\ pc = "done" /\ exitcode = 0 /\ warnings = 2
    /\ icns.outcome = "tool_missing" /\ ico.outcome = "save_failed"
    /\ Present(disk["icon.png"]) /\ ~Present(disk["icon.ico"])

\* C3 as stated: generate_icns removes the staging directory exactly when the
\* packaging tool returned 0; on every failure path the directory the step created
\* is still there when the step returns.
C3_StagingDeletedIffToolOk ==
    icns.outcome # "none" =>
        /\ icns.deleted <=> icns.returncode = 0
        /\ icns.deleted => ~icns.staging_present
        /\ (icns.outcome # "tool_ok" /\ icns.staging_created) =>
               (icns.staging_present /\ ~icns.deleted)

\* C3 amended: the staging directory is removed only when the packaging tool
\* returned 0, and then it is removed unless the removal itself raises (a warning is
\* printed and the directory stays); on every failure path the directory the step
\* created is still there when the step returns.
C3_StagingKeptOnFailure ==
    icns.outcome # "none" =>
        /\ icns.deleted => icns.returncode = 0
        /\ (icns.returncode = 0 /\ ~icns.warned) => icns.deleted
        /\ icns.deleted <=> (icns.staging_created /\ ~icns.staging_present)
        /\ (icns.outcome # "tool_ok" /\ icns.staging_created) =>
               (icns.staging_present /\ ~icns.deleted)
        /\ (icns.returncode = 0 /\ ~icns.deleted) =>
               (icns.staging_present /\ icns.warned /\ icns.icns_written)

C3_Witness ==
    /\ icns.outcome = "tool_ok" /\ icns.returncode = 0 /\ icns.icns_written
    /\ icns.staging_created /\ icns.staging_present /\ ~icns.deleted
    /\ icns.warned /\ ~icns.raised /\ icns.saved = Len(iconset_sizes)
    /\ pc = "done" /\ exitcode = 0

\* C4: every buffer a PNG loop has saved is exactly size x size for its entry,
\* the rounded and shadowed entries included.
C4_SavedSizeIsRequested ==
    \A i \in 1..Len(AllEntries(script)) :
        LET e == AllEntries(script)[i]
        IN  writes[e.filename] > 0 =>
                (disk[e.filename].w = e.size /\ disk[e.filename].h = e.size)

C4_Witness ==
    /\ Vector /\ writes["icon.png"] = 1
    /\ disk["icon.png"].w = BaseIconSize /\ disk["icon.png"].h = BaseIconSize

\* C5 as stated: add_shadow_effect returns a canvas 2 x blur_radius larger than
\* its input in each dimension.
C5_ShadowEnlarges ==
    LastOp = "shadow" => (buf.w = prev.w + 2 * br /\ buf.h = prev.h + 2 * br)

\* C5 amended: add_shadow_effect returns a canvas of exactly the size of its input.
C5_ShadowKeepsSize ==
    LastOp = "shadow" => (buf.w = prev.w /\ buf.h = prev.h)

C5_Witness == LastOp = "shadow" /\ br = DefaultBlurRadius /\ buf.w = prev.w /\ buf.w = MaxSide

\* the shapes C6 names as skipped when degenerate
NamedShapes == {"background", "glow", "mouth", "inner_glow", "ember", "vent"}

\* C6 as stated: at every size from 1 to 512 the renderer completes without error
\* and issues none of the named shapes with a radius or width <= 0.
C6_DegenerateShapesSkipped ==
    rstate # "idle" =>
        /\ rstate = "done"
        /\ \A i \in 1..Len(drawn) :
               drawn[i].shape \in NamedShapes =>
                   (drawn[i].rx > 0 /\ drawn[i].ry > 0 /\ drawn[i].wd > 0)

\* the four extreme corner pixels and the centre pixel of an image
CornerTL(img) == AlphaAt(img, 0, 0)
CornerTR(img) == AlphaAt(img, img.w - 1, 0)
CornerBL(img) == AlphaAt(img, 0, img.h - 1)
CornerBR(img) == AlphaAt(img, img.w - 1, img.h - 1)
Centre(img)   == AlphaAt(img, img.w \div 2, img.h \div 2)

\* C7 as stated: the saved 512 entry (rounded, then shadowed) has all four corner
\* pixels fully transparent and its centre pixel fully opaque.
C7_AllCornersTransparent ==
    (Vector /\ writes["icon.png"] = 1) =>
        LET img == disk["icon.png"]
        IN  /\ CornerTL(img) = 0 /\ CornerTR(img) = 0
            /\ CornerBL(img) = 0 /\ CornerBR(img) = 0
            /\ Centre(img) = 255

\* C7 amended: the top-left, top-right and bottom-left corner pixels are fully
\* transparent and the centre pixel is fully opaque; the bottom-right corner pixel
\* lies under the offset shadow and is partly transparent (alpha strictly between
\* 0 and 255).
C7_ShadowUnderBottomRightCorner ==
    (Vector /\ writes["icon.png"] = 1) =>
        LET img == disk["icon.png"]
        IN  /\ CornerTL(img) = 0 /\ CornerTR(img) = 0 /\ CornerBL(img) = 0
            /\ CornerBR(img) > 0 /\ CornerBR(img) < 255
            /\ Centre(img) = 255

C7_Witness ==
    /\ Vector /\ writes["icon.png"] = 1 /\ disk["icon.png"].w = BaseIconSize
    /\ svg_pat = "clear"
    /\ CornerBR(disk["icon.png"]) > 0 /\ Centre(disk["icon.png"]) = 255

\* C8 as stated: the ICO written from the 512 x 512 base holds a frame at each of
\* 16, 24, 32, 48, 64, 128 and 256; none is missing because the image handed to
\* the writer is smaller than it.
C8_IcoHoldsEverySize ==
    (Vector /\ ico.written /\ ico.read.w = BaseIconSize) =>
        /\ disk["icon.ico"].frames = Range(ico_sizes)
        /\ \A s \in Range(ico_sizes) : s <= ico.handed.w

\* C9: rounding twice with one radius percentage gives the alpha of rounding once,
\* and the alpha after rounding is the mask of (size, radius percentage) alone,
\* whatever alpha the input had.
C9_RoundingIdempotent ==
    /\ LastOp = "round" =>
          /\ buf.w = prev.w /\ buf.h = prev.w
          /\ \A p \in Pixels(buf) :
                AlphaAt(buf, p[1], p[2]) =
                    AlphaAt(RoundedRectMask(prev.w, RoundRadius(prev.w, rp)), p[1], p[2])
    /\ (Len(ops) >= 2 /\ ops[Len(ops)] = "round" /\ ops[Len(ops) - 1] = "round") =>
          \A p \in Pixels(buf) : AlphaAt(buf, p[1], p[2]) = AlphaAt(prev, p[1], p[2])

C9_Witness ==
    /\ ops = <<"round", "round">>
    /\ buf.w = MaxSide
    /\ CornerTL(buf) = 0 /\ Centre(buf) = 255
    /\ CornerTL(prev) = 0

\* C10: no output path is written twice; once a bundle step has begun every path
\* of the tables has been written exactly once (and is never written again); the
\* packagers of the vector pipeline read the icon.png the 512 entry wrote.
C10_WriteOnceBeforeBundles ==
    /\ \A f \in FileNames : writes[f] <= 1
    /\ \A i, j \in 1..Len(AllEntries(script)) :
          AllEntries(script)[i].filename = AllEntries(script)[j].filename => i = j
    /\ (pc \in {"icns", "ico", "done"} \/ BundleBegun) =>
          \A i \in 1..Len(AllEntries(script)) : writes[AllEntries(script)[i].filename] = 1
    /\ \A i \in 1..Len(AllEntries(script)) :
          writes[AllEntries(script)[i].filename] = 1 =>
              disk[AllEntries(script)[i].filename].w = AllEntries(script)[i].size
    /\ Present(icns.read) => (icns.read.w = BaseIconSize /\ writes["icon.png"] = 1)
    /\ Present(ico.read) => (ico.read.w = BaseIconSize /\ writes["icon.png"] = 1)

C10_Witness ==
    /\ Vector /\ pc = "done"
    /\ Present(icns.read) /\ Present(ico.read)
    /\ \A e \in Range(sizes) \cup Range(store_sizes) : writes[e.filename] = 1

====
